---- MODULE Spec2Model ----
(***************************************************************************)
(* Model of src/pkg/aztech_device.py: the AztechDevice base constructor    *)
(* (which starts the daemon poll thread), the AztechPlug and AztechBulb    *)
(* constructors (capability detection and property population), the two   *)
(* poll loops, and the static extraction helpers.                          *)
(*                                                                         *)
(* Encoding of Python values                                               *)
(*   dict            a function from key strings to values                 *)
(*   str that the code inspects (split, `in`)   a tuple of 1-char strings  *)
(*   None            NoneV                                                 *)
(*   result of a call   [v |-> x], NoneV, or [raise |-> "KeyError"] ...    *)
(*   energy numbers  integers counting thousandths of the base unit, so    *)
(*                   that x / 1000 is exact on integer milli-readings      *)
(***************************************************************************)
EXTENDS Integers, Sequences, FiniteSets, TLC

\* ------------------------------------------------------------------ values

NoneV == [none |-> TRUE]

Val(x) == [v |-> x]

Raise(e) == [raise |-> e]

IsRaise(r) == "raise" \in DOMAIN r

IsNone(r) == "none" \in DOMAIN r

\* m[k] on a dict: the value, or KeyError when the key is missing;
\* subscripting None is a TypeError.
Get(m, k) ==
    IF IsNone(m) THEN Raise("TypeError")
    ELSE IF k \in DOMAIN m THEN Val(m[k])
    ELSE Raise("KeyError")

\* `k in m`: membership on a dict; on None it is a TypeError.
In(k, m) ==
    IF IsNone(m) THEN Raise("TypeError") ELSE Val(k \in DOMAIN m)

Range(s) == {s[i] : i \in 1..Len(s)}

\* str.split(sep) for a one-character separator.
RECURSIVE Split(_, _)
Split(s, sep) ==
    IF \A i \in 1..Len(s) : s[i] # sep THEN <<s>>
    ELSE LET i == CHOOSE j \in 1..Len(s) :
                      s[j] = sep /\ \A k \in 1..(j - 1) : s[k] # sep
         IN <<SubSeq(s, 1, i - 1)>> \o Split(SubSeq(s, i + 1, Len(s)), sep)

\* `sub in s` on strings: substring test.
Contains(sub, s) ==
    \E i \in 0..(Len(s) - Len(sub)) : SubSeq(s, i + 1, i + Len(sub)) = sub

\* SmartDevice.FEATURE_ENERGY_METER of the vendor client library.
FEATURE_ENERGY_METER == <<"E", "N", "E">>

LightSwitch == <<"L", "i", "g", "h", "t", " ", "S", "w", "i", "t", "c", "h">>

\* ------------------------------------------------- AztechDevice helpers

\* Faulty variant of IsNotNone: `if power:` in place of `if power is not None:`.
IsTruthy(r) == ~IsNone(r) /\ r.v # 0

\* `x is not None` (lines 122, 138, 152, 364, 380, 394).
IsNotNone(r) == ~IsNone(r)

\* AztechDevice.power / voltage / current share one shape: the base-unit
\* key as-is, else the milli-unit key divided by 1000, else None.
Extract(emeter, base, milli) ==
    LET hasBase == In(base, emeter) IN
    IF IsRaise(hasBase) THEN hasBase
    ELSE IF hasBase.v THEN Val(emeter[base])
    ELSE IF milli \in DOMAIN emeter THEN Val(emeter[milli] \div 1000)
    ELSE NoneV

power(emeter) == Extract(emeter, "power", "power_mw")

voltage(emeter) == Extract(emeter, "voltage", "voltage_mv")

current(emeter) == Extract(emeter, "current", "current_ma")

\* ---------------------------------------------------- AztechPlug helpers

has_emeter(sysinfo) ==
    LET f == Get(sysinfo, "feature") IN
    IF IsRaise(f) THEN f
    ELSE Val(FEATURE_ENERGY_METER \in Range(Split(f.v, ":")))

\* is_on of a plug: the selected child's state for index >= 0, else the
\* relay state.  Python indexes children from 0.
plug_is_on(idx, sysinfo) ==
    IF idx >= 0
    THEN LET c == Get(sysinfo, "children") IN
         IF IsRaise(c) THEN c
         ELSE IF idx + 1 > Len(c.v) THEN Raise("IndexError")
         ELSE LET s == Get(c.v[idx + 1], "state") IN
              IF IsRaise(s) THEN s ELSE Val(s.v # 0)
    ELSE LET r == Get(sysinfo, "relay_state") IN
         IF IsRaise(r) THEN r ELSE Val(r.v # 0)

is_led_on(sysinfo) ==
    LET l == Get(sysinfo, "led_off") IN
    IF IsRaise(l) THEN l ELSE Val((1 - l.v) # 0)

plug_is_dimmable(sysinfo) == In("brightness", sysinfo)

plug_brightness(sysinfo) == Get(sysinfo, "brightness")

\* ---------------------------------------------------- AztechBulb helpers

\* bool(d[key]) of a flag.
Flag(d, key) ==
    LET f == Get(d, key) IN IF IsRaise(f) THEN f ELSE Val(f.v # 0)

bulb_is_dimmable(sysinfo) == Flag(sysinfo, "is_dimmable")

is_color(sysinfo) == Flag(sysinfo, "is_color")

is_variable_color_temp(sysinfo) == Flag(sysinfo, "is_variable_color_temp")

bulb_is_on(light_state) == Flag(light_state, "on_off")

\* Faulty variant of OnRecord: the off state is not looked at.
OnRecordTop(light_state) ==
    LET on == bulb_is_on(light_state) IN
    IF IsRaise(on) THEN on ELSE Val(light_state)

\* The record the four readers below take their fields from:
\*   if not AztechBulb.is_on(light_state):
\*       light_state = light_state['dft_on_state']
OnRecord(light_state) ==
    LET on == bulb_is_on(light_state) IN
    IF IsRaise(on) THEN on
    ELSE IF ~on.v THEN Get(light_state, "dft_on_state")
    ELSE Val(light_state)

color_temp(light_state) ==
    LET r == OnRecord(light_state) IN
    IF IsRaise(r) THEN r ELSE Get(r.v, "color_temp")

color_mode(light_state) ==
    LET t == color_temp(light_state) IN
    IF IsRaise(t) THEN t
    ELSE IF t.v = 0 THEN Val("color") ELSE Val("temperature")

\* value = int(brightness * 255 / 100), brightness a non-negative integer.
hsv(light_state) ==
    LET r == OnRecord(light_state) IN
    IF IsRaise(r) THEN r
    ELSE LET h == Get(r.v, "hue")
             s == Get(r.v, "saturation")
             b == Get(r.v, "brightness")
         IN IF IsRaise(h) THEN h
            ELSE IF IsRaise(s) THEN s
            ELSE IF IsRaise(b) THEN b
            ELSE Val(<<h.v, s.v, (b.v * 255) \div 100>>)

bulb_brightness(light_state) ==
    LET r == OnRecord(light_state) IN
    IF IsRaise(r) THEN r ELSE Get(r.v, "brightness")

\* util.hsv_to_rgb: the standard sector conversion, each channel truncated
\* to an integer in 0..255 and written as two hex digits after '#'.
HexDigits ==
    <<"0", "1", "2", "3", "4", "5", "6", "7",
      "8", "9", "a", "b", "c", "d", "e", "f">>

Hex2[n \in 0..255] == <<HexDigits[(n \div 16) + 1], HexDigits[(n % 16) + 1]>>

hsv_to_rgb[t \in (0..360) \X (0..100) \X (0..255)] ==
    LET h == t[1]
        s == t[2]
        val == t[3]
        sector == (h \div 60) % 6
        f == h % 60
        p == (val * (100 - s)) \div 100
        q == (val * (6000 - f * s)) \div 6000
        u == (val * (6000 - (60 - f) * s)) \div 6000
        rgb == CASE sector = 0 -> <<val, u, p>>
                 [] sector = 1 -> <<q, val, p>>
                 [] sector = 2 -> <<p, val, u>>
                 [] sector = 3 -> <<p, q, val>>
                 [] sector = 4 -> <<u, p, val>>
                 [] OTHER -> <<val, p, q>>
    IN <<"#">> \o Hex2[rgb[1]] \o Hex2[rgb[2]] \o Hex2[rgb[3]]

\* ------------------------------------------------- vendor snapshot feeds

TIM == <<"T", "I", "M">>

TIM_ENE == TIM \o <<":">> \o FEATURE_ENERGY_METER

TIM_ENEX == TIM_ENE \o <<"X">>

Outlets == <<[alias |-> "Outlet", state |-> 0]>>

\* Status snapshots of a plug (kyla_dev.sys_info).  The last two lack a
\* field the code reads.
PlugMeter ==
    [model |-> "HS110", alias |-> "Heater", feature |-> TIM_ENE,
     relay_state |-> 1, led_off |-> 0, children |-> Outlets]

PlugDimmer ==
    [model |-> "HS220", alias |-> "", feature |-> TIM,
     dev_name |-> <<"S", " ">> \o LightSwitch,
     relay_state |-> 0, led_off |-> 1, brightness |-> 50,
     children |-> Outlets]

PlugPlain ==
    [model |-> "HS100", alias |-> "Fan", feature |-> TIM_ENEX,
     dev_name |-> <<"P", "l", "u", "g">>,
     relay_state |-> 1, led_off |-> 1, children |-> Outlets]

PlugNoFeature ==
    [model |-> "HS100", alias |-> "Fan",
     relay_state |-> 0, led_off |-> 0, children |-> Outlets]

PlugNoRelay ==
    [model |-> "HS100", alias |-> "Fan", feature |-> TIM, led_off |-> 0]

\* Energy snapshots (get_emeter_realtime), in thousandths of the base unit:
\* 2000 mW / 230000 mV / 9 mA in milli-unit keys; 1.5 W and a zero
\* current in base-unit keys, no voltage; no reading at all.
EmMilli ==
    [power_mw |-> 2000000, voltage_mv |-> 230000000, current_ma |-> 9000]

EmBase == [power |-> 1500, current |-> 0]

EmEmpty == [err_code |-> 0]

\* Status snapshots of a bulb.
BulbSys(color, vct, dim) ==
    [model |-> "LB130", alias |-> "Lamp", is_color |-> color,
     is_variable_color_temp |-> vct, is_dimmable |-> dim]

\* Light-state snapshots (get_light_state).  LightOff is the shape the
\* vendor reports while off; LightNoDefault lacks the default-on record.
OnState(h, s, b, t) ==
    [hue |-> h, saturation |-> s, brightness |-> b, color_temp |-> t]

LightOnWhite ==
    [on_off |-> 1, hue |-> 0, saturation |-> 0, brightness |-> 100,
     color_temp |-> 2700, dft_on_state |-> OnState(240, 100, 10, 0)]

LightOff == [on_off |-> 0, dft_on_state |-> OnState(120, 50, 80, 0)]

LightNoDefault == [on_off |-> 0]

\* What the vendor client may answer in a run, and whether the run counts
\* the failed fetches.
FullFeed ==
    [plugSys |-> {PlugMeter, PlugDimmer, PlugPlain, PlugNoFeature,
                  PlugNoRelay},
     bulbSys |-> {BulbSys(1, 1, 1), BulbSys(1, 0, 1), BulbSys(0, 1, 0),
                  BulbSys(0, 0, 1)},
     emeters |-> {EmMilli, EmBase, EmEmpty},
     lights  |-> {LightOnWhite, LightOff, LightNoDefault},
     counting |-> TRUE]

PairFeed ==
    [plugSys |-> {PlugMeter},
     bulbSys |-> {BulbSys(0, 0, 1)},
     emeters |-> {EmMilli},
     lights  |-> {LightOnWhite, LightOff},
     counting |-> FALSE]

\* ------------------------------------------------------------------ state

Devices == {"plug", "bulb"}

\* The class of each device: AztechPlug or AztechBulb.
Kind(d) == d

VARIABLES
    active,       \* the devices the adapter instantiates in this run
    index,        \* self.index
    name,         \* self.name
    description,  \* self.description
    typ,          \* self._type, the list of capability tags
    properties,   \* self.properties, in insertion order: [name, value]
    ctorPc,       \* position of the constructor
    ctorLocal,    \* the constructor's sysinfo / emeter / state
    ctorFault,    \* the exception that left the constructor, or "none"
    pollPc,       \* position of the poll thread; "none" before t.start()
    pollLocal,    \* the loop's sysinfo / emeter / state
    pollIdx,      \* position of the for loop over self.properties.values()
    iterLen,      \* size of the dict when the iterator was created
    pollFault,    \* the exception that ended the poll thread, or "none"
    fresh,        \* locals assigned by a fetch of the current cycle
    failed,       \* vendor fetches of the loop that failed so far
                  \* (saturating at MaxFailed)
    ls,           \* light state handed to the static readers
    reading       \* what the static readers returned for ls

devVars ==
    <<active, index, name, description, typ, properties, ctorPc, ctorLocal,
      ctorFault, pollPc, pollLocal, pollIdx, iterLen, pollFault, fresh,
      failed>>

lightVars == <<ls, reading>>

vars == <<devVars, lightVars>>

MaxFailed == 2

NoLocals == [sysinfo |-> NoneV, emeter |-> NoneV, state |-> NoneV]

DevInit(act, idxs) ==
    /\ active = act
    /\ \E i \in idxs :
           index = [d \in Devices |-> IF Kind(d) = "plug" THEN i ELSE -1]
    /\ name = [d \in Devices |-> ""]
    /\ description = [d \in Devices |-> ""]
    /\ typ = [d \in Devices |-> <<>>]
    /\ properties = [d \in Devices |-> <<>>]
    /\ ctorPc = [d \in Devices |-> IF d \in act THEN "new" ELSE "absent"]
    /\ ctorLocal = [d \in Devices |-> NoLocals]
    /\ ctorFault = [d \in Devices |-> "none"]
    /\ pollPc = [d \in Devices |-> "none"]
    /\ pollLocal = [d \in Devices |-> NoLocals]
    /\ pollIdx = [d \in Devices |-> 0]
    /\ iterLen = [d \in Devices |-> 0]
    /\ pollFault = [d \in Devices |-> "none"]
    /\ fresh = [d \in Devices |-> {}]
    /\ failed = [d \in Devices |-> 0]

LightIdle == ls = NoneV /\ reading = NoneV

\* ------------------------------------------------------- vendor client

SDE == "SmartDeviceException"

Hang == [hang |-> TRUE]

IsHang(r) == "hang" \in DOMAIN r

SysFeed(W, d) == IF Kind(d) = "plug" THEN W.plugSys ELSE W.bulbSys

\* A blocking vendor call answers with a snapshot or raises
\* SmartDeviceException.
Answers(S) == {Val(x) : x \in S} \cup {Raise(SDE)}

\* --------------------------------------------------------- constructors

\* The constructor's progress: tags, properties, and the exception that
\* left it.
Build(d) == [typ |-> typ[d], props |-> properties[d], fault |-> "none"]

AddTag(st, tag) ==
    IF st.fault # "none" THEN st ELSE [st EXCEPT !.typ = Append(@, tag)]

\* self.properties[nm] = Property(self, nm, ..., r): r is evaluated first.
AddProp(st, nm, r) ==
    IF st.fault # "none" THEN st
    ELSE IF IsRaise(r) THEN [st EXCEPT !.fault = r.raise]
    ELSE [st EXCEPT !.props = Append(@, [name |-> nm, value |-> r])]

\* if c: F(st)
When(st, c, F(_)) ==
    IF st.fault # "none" THEN st
    ELSE IF IsRaise(c) THEN [st EXCEPT !.fault = c.raise]
    ELSE IF c.v THEN F(st)
    ELSE st

\* Leave the constructor step with progress st and locals loc: on to pc
\* `next`, or out with the exception.  The locals are gone once the
\* constructor has returned or raised.
Commit(d, st, next, loc) ==
    /\ typ' = [typ EXCEPT ![d] = st.typ]
    /\ properties' = [properties EXCEPT ![d] = st.props]
    /\ ctorFault' = [ctorFault EXCEPT ![d] = st.fault]
    /\ ctorPc' = [ctorPc EXCEPT ![d] = IF st.fault = "none" THEN next
                                        ELSE "failed"]
    /\ ctorLocal' = [ctorLocal EXCEPT ![d] =
                         IF st.fault # "none" \/ next = "done" THEN NoLocals
                         ELSE loc]

Failing(st, e) == [st EXCEPT !.fault = e]

\* AztechDevice.__init__: the tag list, description and name from the
\* status snapshot, then the poll thread is started (lines 42-44).
BaseInit(d, W) ==
    /\ ctorPc[d] = "new"
    /\ \E a \in Answers(SysFeed(W, d)) :
         LET desc == Get(a.v, "model")
             alias == IF index[d] >= 0
                      THEN LET c == Get(a.v, "children") IN
                           IF IsRaise(c) THEN c
                           ELSE IF index[d] + 1 > Len(c.v)
                           THEN Raise("IndexError")
                           ELSE Get(c.v[index[d] + 1], "alias")
                      ELSE Get(a.v, "alias")
             fault == IF IsRaise(a) THEN a.raise
                      ELSE IF IsRaise(desc) THEN desc.raise
                      ELSE IF IsRaise(alias) THEN alias.raise
                      ELSE "none"
         IN IF fault # "none"
            THEN /\ ctorPc' = [ctorPc EXCEPT ![d] = "failed"]
                 /\ ctorFault' = [ctorFault EXCEPT ![d] = fault]
                 /\ UNCHANGED <<description, name, pollPc>>
            ELSE /\ description' = [description EXCEPT ![d] = desc.v]
                 /\ name' = [name EXCEPT ![d] =
                                 IF alias.v = "" THEN desc.v ELSE alias.v]
                 /\ pollPc' = [pollPc EXCEPT ![d] = "sleep"]
                 /\ ctorPc' = [ctorPc EXCEPT ![d] = "subclass"]
                 /\ UNCHANGED ctorFault
    /\ typ' = [typ EXCEPT ![d] = <<>>]
    /\ UNCHANGED <<active, index, properties, ctorLocal, pollLocal, pollIdx,
                   iterLen, pollFault, fresh, failed, lightVars>>

\* 'dev_name' not in sysinfo or 'Light Switch' not in sysinfo['dev_name']
IsSmartPlug(sysinfo) ==
    "dev_name" \notin DOMAIN sysinfo
        \/ ~Contains(LightSwitch, sysinfo["dev_name"])

\* AztechPlug.__init__, lines 109-117.
PlugTags(d, W) ==
    /\ ctorPc[d] = "subclass" /\ Kind(d) = "plug"
    /\ \E a \in Answers(SysFeed(W, d)) :
         LET s0 == AddTag(Build(d), "OnOffSwitch")
             em == has_emeter(a.v)
         IN IF IsRaise(a) THEN Commit(d, Failing(s0, a.raise), "", NoLocals)
            ELSE IF IsRaise(em)
            THEN Commit(d, Failing(IF IsSmartPlug(a.v)
                                   THEN AddTag(s0, "SmartPlug") ELSE s0,
                                   em.raise), "", NoLocals)
            ELSE Commit(d, IF IsSmartPlug(a.v) THEN AddTag(s0, "SmartPlug")
                           ELSE s0,
                        IF em.v THEN "emeter" ELSE "switch",
                        [ctorLocal[d] EXCEPT !.sysinfo = a.v])
    /\ UNCHANGED <<active, index, name, description, pollPc, pollLocal,
                   pollIdx, iterLen, pollFault, fresh, failed, lightVars>>

\* The power / voltage / current block shared by both constructors
\* (lines 121-163 and 363-405).
AddEnergy(st, emeter) ==
    LET s1 == When(st, Val(IsNotNone(power(emeter))),
                   LAMBDA s : AddProp(AddTag(s, "EnergyMonitor"),
                                      "instantaneousPower", power(emeter)))
        s2 == When(s1, Val(IsNotNone(voltage(emeter))),
                   LAMBDA s : AddProp(s, "voltage", voltage(emeter)))
    IN When(s2, Val(IsNotNone(current(emeter))),
            LAMBDA s : AddProp(s, "current", current(emeter)))

\* AztechPlug.__init__, lines 119-163.
PlugEnergy(d, W) ==
    /\ ctorPc[d] = "emeter" /\ Kind(d) = "plug"
    /\ \E a \in Answers(W.emeters) :
         IF IsRaise(a) THEN Commit(d, Failing(Build(d), a.raise), "", NoLocals)
         ELSE Commit(d, AddEnergy(Build(d), a.v), "switch",
                     [ctorLocal[d] EXCEPT !.emeter = a.v])
    /\ UNCHANGED <<active, index, name, description, pollPc, pollLocal,
                   pollIdx, iterLen, pollFault, fresh, failed, lightVars>>

\* AztechPlug.__init__, lines 165-200.
PlugSwitch(d) ==
    /\ ctorPc[d] = "switch" /\ Kind(d) = "plug"
    /\ LET sysinfo == ctorLocal[d].sysinfo
           s1 == When(Build(d), plug_is_dimmable(sysinfo),
                      LAMBDA s : AddProp(AddTag(s, "MultiLevelSwitch"),
                                         "level", plug_brightness(sysinfo)))
           s2 == AddProp(s1, "on", plug_is_on(index[d], sysinfo))
           s3 == AddProp(s2, "led-on", is_led_on(sysinfo))
       IN Commit(d, s3, "done", NoLocals)
    /\ UNCHANGED <<active, index, name, description, pollPc, pollLocal,
                   pollIdx, iterLen, pollFault, fresh, failed, lightVars>>

\* hsv_to_rgb(*self.hsv(state))
ColorOf(state) ==
    LET t == hsv(state) IN IF IsRaise(t) THEN t ELSE Val(hsv_to_rgb[t.v])

\* Faulty variant of HasColorMode: `or` in place of `and`.
HasColorModeEither(sysinfo) ==
    LET c == is_color(sysinfo) IN
    IF IsRaise(c) THEN c
    ELSE IF c.v THEN c
    ELSE is_variable_color_temp(sysinfo)

\* self.is_color(sysinfo) and self.is_variable_color_temp(sysinfo)
HasColorMode(sysinfo) ==
    LET c == is_color(sysinfo) IN
    IF IsRaise(c) THEN c
    ELSE IF ~c.v THEN c
    ELSE is_variable_color_temp(sysinfo)

\* AztechBulb.__init__, lines 287-292.
BulbLightState(d, W) ==
    /\ ctorPc[d] = "subclass" /\ Kind(d) = "bulb"
    /\ \E st \in Answers(W.lights), a \in Answers(SysFeed(W, d)) :
         LET s0 == AddTag(AddTag(Build(d), "OnOffSwitch"), "Light") IN
         IF IsRaise(st) THEN Commit(d, Failing(s0, st.raise), "", NoLocals)
         ELSE IF IsRaise(a) THEN Commit(d, Failing(s0, a.raise), "", NoLocals)
         ELSE Commit(d, s0, "color",
                     [ctorLocal[d] EXCEPT !.state = st.v, !.sysinfo = a.v])
    /\ UNCHANGED <<active, index, name, description, pollPc, pollLocal,
                   pollIdx, iterLen, pollFault, fresh, failed, lightVars>>

\* AztechBulb.__init__, lines 294-358.
BulbColor(d) ==
    /\ ctorPc[d] = "color" /\ Kind(d) = "bulb"
    /\ LET sysinfo == ctorLocal[d].sysinfo
           state == ctorLocal[d].state
           s1 == When(Build(d), is_color(sysinfo),
                      LAMBDA s : AddProp(AddTag(s, "ColorControl"),
                                         "color", ColorOf(state)))
           s2 == When(s1, is_variable_color_temp(sysinfo),
                      LAMBDA s :
                          AddProp(IF "ColorControl" \notin Range(s.typ)
                                  THEN AddTag(s, "ColorControl") ELSE s,
                                  "colorTemperature", color_temp(state)))
           s3 == When(s2, HasColorMode(sysinfo),
                      LAMBDA s : AddProp(s, "colorMode", color_mode(state)))
           s4 == When(s3, bulb_is_dimmable(sysinfo),
                      LAMBDA s : AddProp(s, "level", bulb_brightness(state)))
       IN Commit(d, s4, "emeter", ctorLocal[d])
    /\ UNCHANGED <<active, index, name, description, pollPc, pollLocal,
                   pollIdx, iterLen, pollFault, fresh, failed, lightVars>>

\* AztechBulb.__init__, lines 360-416.
BulbEnergy(d, W) ==
    /\ ctorPc[d] = "emeter" /\ Kind(d) = "bulb"
    /\ \E a \in Answers(W.emeters) :
         IF IsRaise(a) THEN Commit(d, Failing(Build(d), a.raise), "", NoLocals)
         ELSE Commit(d, AddProp(AddEnergy(Build(d), a.v), "on",
                                bulb_is_on(ctorLocal[d].state)),
                     "done", NoLocals)
    /\ UNCHANGED <<active, index, name, description, pollPc, pollLocal,
                   pollIdx, iterLen, pollFault, fresh, failed, lightVars>>

\* ------------------------------------------------------------ poll loops

\* Faulty variant of Caught: no except clause around the cycle.
CaughtNothing(e) == FALSE

\* Faulty variant of Owner: `properties` as one dict shared by every instance.
OwnerShared(d) == "plug"

\* Faulty variant of AfterStatus: the loop goes from the status snapshot straight
\* to the updates.
AfterStatusNoFetch(k, sysinfo) == Val("update")

\* except SmartDeviceException (lines 218 and 433).
Caught(e) == e = SDE

\* The device whose property dict `self.properties` is (line 216, 431).
Owner(d) == d

\* Where the loop goes after the status snapshot: a plug fetches the
\* energy snapshot iff has_emeter(sysinfo), a bulb always.
AfterStatus(k, sysinfo) ==
    IF k = "plug"
    THEN LET h == has_emeter(sysinfo) IN
         IF IsRaise(h) THEN h
         ELSE IF h.v THEN Val("emeter") ELSE Val("update")
    ELSE Val("emeter")

\* Where the loop goes after the energy snapshot.
AfterEmeter(k) == IF k = "plug" THEN "update" ELSE "state"

\* Property.update of aztech_property.py: the value recomputed with the
\* derivation used at construction; an unknown name is left alone.
PlugPropertyUpdate(idx, nm, L) ==
    CASE nm = "on" -> plug_is_on(idx, L.sysinfo)
      [] nm = "led-on" -> is_led_on(L.sysinfo)
      [] nm = "level" -> plug_brightness(L.sysinfo)
      [] nm = "instantaneousPower" -> power(L.emeter)
      [] nm = "voltage" -> voltage(L.emeter)
      [] nm = "current" -> current(L.emeter)
      [] OTHER -> [keep |-> TRUE]

BulbPropertyUpdate(nm, L) ==
    CASE nm = "on" -> bulb_is_on(L.state)
      [] nm = "color" -> ColorOf(L.state)
      [] nm = "colorTemperature" -> color_temp(L.state)
      [] nm = "colorMode" -> color_mode(L.state)
      [] nm = "level" -> bulb_brightness(L.state)
      [] nm = "instantaneousPower" -> power(L.emeter)
      [] nm = "voltage" -> voltage(L.emeter)
      [] nm = "current" -> current(L.emeter)
      [] OTHER -> [keep |-> TRUE]

PropertyUpdate(d, nm, L) ==
    IF Kind(d) = "plug" THEN PlugPropertyUpdate(index[d], nm, L)
    ELSE BulbPropertyUpdate(nm, L)

\* prop.update(...) on the entry p of a property dict: only the value
\* changes.
Refreshed(p, r) ==
    IF "keep" \in DOMAIN r THEN p ELSE [p EXCEPT !.value = r]

Bump(n) == IF n < MaxFailed THEN n + 1 ELSE n

\* The cycle is over: the loop sleeps again.  Its locals are dead until
\* the next cycle assigns them, and are written as None.
EndCycle(d) ==
    /\ pollPc' = [pollPc EXCEPT ![d] = "sleep"]
    /\ pollLocal' = [pollLocal EXCEPT ![d] = NoLocals]
    /\ fresh' = [fresh EXCEPT ![d] = {}]
    /\ pollIdx' = [pollIdx EXCEPT ![d] = 0]
    /\ iterLen' = [iterLen EXCEPT ![d] = 0]
    /\ UNCHANGED pollFault

\* `continue`: the cycle is abandoned.
Skip(d) == EndCycle(d)

\* Exception e raised inside the try block: caught and the cycle skipped,
\* or out of poll, which ends the thread.
Thrown(d, e) ==
    IF Caught(e) THEN Skip(d)
    ELSE /\ pollPc' = [pollPc EXCEPT ![d] = "dead"]
         /\ pollFault' = [pollFault EXCEPT ![d] = e]
         /\ pollLocal' = [pollLocal EXCEPT ![d] = NoLocals]
         /\ fresh' = [fresh EXCEPT ![d] = {}]
         /\ pollIdx' = [pollIdx EXCEPT ![d] = 0]
         /\ iterLen' = [iterLen EXCEPT ![d] = 0]

\* The vendor call never returns.
Blocked(d) ==
    /\ pollPc' = [pollPc EXCEPT ![d] = "blocked"]
    /\ UNCHANGED <<pollLocal, fresh, pollFault, pollIdx, iterLen>>

\* Local `what` assigned x; on to the next fetch, or into
\* `for prop in self.properties.values()`.
Goto(d, what, x, pc) ==
    /\ pollPc' = [pollPc EXCEPT ![d] = pc]
    /\ pollLocal' = [pollLocal EXCEPT ![d][what] = x]
    /\ fresh' = [fresh EXCEPT ![d] = @ \cup {what}]
    /\ pollIdx' = [pollIdx EXCEPT ![d] = IF pc = "update" THEN 1 ELSE 0]
    /\ iterLen' = [iterLen EXCEPT ![d] =
                       IF pc = "update" THEN Len(properties[Owner(d)]) ELSE 0]
    /\ UNCHANGED pollFault

\* The vendor's answer a to a fetch of the loop is counted when it is a
\* failure: an exception, or no snapshot.
Count(d, a, W) ==
    failed' = [failed EXCEPT ![d] =
                   IF W.counting /\ (IsRaise(a) \/ IsNone(a)) THEN Bump(@)
                   ELSE @]

\* poll, lines 205-213 and 421-426: sleep, then the status snapshot.
PollStatus(d, W) ==
    /\ pollPc[d] = "sleep"
    /\ \E a \in Answers(SysFeed(W, d)) \cup {NoneV, Hang} :
         /\ Count(d, a, W)
         /\ IF IsHang(a) THEN Blocked(d)
            ELSE IF IsRaise(a) THEN Thrown(d, a.raise)
            ELSE IF IsNone(a) THEN Skip(d)
            ELSE LET nxt == AfterStatus(Kind(d), a.v) IN
                 IF IsRaise(nxt) THEN Thrown(d, nxt.raise)
                 ELSE Goto(d, "sysinfo", a.v, nxt.v)
    /\ UNCHANGED <<active, index, name, description, typ, properties,
                   ctorPc, ctorLocal, ctorFault, lightVars>>

\* poll, lines 214 and 428: the energy snapshot.
PollEmeter(d, W) ==
    /\ pollPc[d] = "emeter"
    /\ \E a \in Answers(W.emeters) \cup {Hang} :
         /\ Count(d, a, W)
         /\ IF IsHang(a) THEN Blocked(d)
            ELSE IF IsRaise(a) THEN Thrown(d, a.raise)
            ELSE Goto(d, "emeter", a.v, AfterEmeter(Kind(d)))
    /\ UNCHANGED <<active, index, name, description, typ, properties,
                   ctorPc, ctorLocal, ctorFault, lightVars>>

\* poll, line 429: the light state.
PollState(d, W) ==
    /\ pollPc[d] = "state"
    /\ \E a \in Answers(W.lights) \cup {Hang} :
         /\ Count(d, a, W)
         /\ IF IsHang(a) THEN Blocked(d)
            ELSE IF IsRaise(a) THEN Thrown(d, a.raise)
            ELSE Goto(d, "state", a.v, "update")
    /\ UNCHANGED <<active, index, name, description, typ, properties,
                   ctorPc, ctorLocal, ctorFault, lightVars>>

\* The entries the for loop reaches in up to n iterations from entry i
\* on, and the first of them whose update raises (0 when none does).
Reached(props, i, n) ==
    i..(IF i + n - 1 < Len(props) THEN i + n - 1 ELSE Len(props))

FirstFault(d, props, i, L, n) ==
    LET bad == {j \in Reached(props, i, n) :
                   IsRaise(PropertyUpdate(d, props[j].name, L))}
    IN IF bad = {} THEN 0 ELSE CHOOSE j \in bad : \A k \in bad : j <= k

\* Faulty variant of UpdateFrom: a property whose reading is gone is deleted from
\* the dict.
UpdateFromPruned(d, props, i, L, n) ==
    LET bad == FirstFault(d, props, i, L, n)
        stop == IF bad = 0 THEN i + Cardinality(Reached(props, i, n)) ELSE bad
        kept == {j \in 1..Len(props) :
                    ~(j >= i /\ j < stop
                        /\ IsNone(PropertyUpdate(d, props[j].name, L)))}
        At(k) == CHOOSE j \in kept : Cardinality({m \in kept : m < j}) = k - 1
    IN [props |-> [k \in 1..Cardinality(kept) |->
                      IF At(k) >= i /\ At(k) < stop
                      THEN Refreshed(props[At(k)],
                                     PropertyUpdate(d, props[At(k)].name, L))
                      ELSE props[At(k)]],
        idx |-> stop,
        fault |-> IF bad = 0 THEN "none"
                  ELSE PropertyUpdate(d, props[bad].name, L).raise]

\* Up to n iterations of the for loop from entry i on: the refreshed
\* dict, the entry reached, and the exception an update raised.  An update
\* that raises ends the loop with the entries before it refreshed.
UpdateFrom(d, props, i, L, n) ==
    LET bad == FirstFault(d, props, i, L, n)
        stop == IF bad = 0 THEN i + Cardinality(Reached(props, i, n)) ELSE bad
    IN [props |-> [j \in 1..Len(props) |->
                      IF j >= i /\ j < stop
                      THEN Refreshed(props[j],
                                     PropertyUpdate(d, props[j].name, L))
                      ELSE props[j]],
        idx |-> stop,
        fault |-> IF bad = 0 THEN "none"
                  ELSE PropertyUpdate(d, props[bad].name, L).raise]

\* The constructor of d has returned or raised.
Returned(d) == ctorPc[d] \in {"done", "failed"}

\* poll, lines 216-217 and 431-432: the for loop.  The dict iterator
\* raises RuntimeError when the dict changed size since the iterator was
\* created.  While the constructor still runs, each iteration is a step of
\* its own; once it has returned, no other thread writes the dict and the
\* remaining iterations are one step.
PollUpdate(d) ==
    /\ pollPc[d] = "update"
    /\ LET o == Owner(d)
           i == pollIdx[d]
           len == Len(properties[o])
       IN IF len # iterLen[d]
          THEN Thrown(d, "RuntimeError") /\ UNCHANGED properties
          ELSE \E res \in {UpdateFrom(d, properties[o], i, pollLocal[d],
                                      IF Returned(o) THEN len ELSE 1)} :
                 /\ properties' = [properties EXCEPT ![o] = res.props]
                 /\ IF res.fault # "none"
                    THEN Thrown(d, res.fault)
                    ELSE IF res.idx > len /\ (Returned(o) \/ i > len)
                    THEN EndCycle(d)
                    ELSE /\ pollIdx' = [pollIdx EXCEPT ![d] = res.idx]
                         /\ UNCHANGED <<pollPc, pollLocal, fresh, iterLen,
                                        pollFault>>
    /\ UNCHANGED <<active, index, name, description, typ, ctorPc, ctorLocal,
                   ctorFault, failed, lightVars>>

\* ------------------------------------------------------ specifications

Ctor(d, W) ==
    \/ BaseInit(d, W)
    \/ PlugTags(d, W)
    \/ PlugEnergy(d, W)
    \/ PlugSwitch(d)
    \/ BulbLightState(d, W)
    \/ BulbColor(d)
    \/ BulbEnergy(d, W)

Poll(d, W) ==
    \/ PollStatus(d, W)
    \/ PollEmeter(d, W)
    \/ PollState(d, W)
    \/ PollUpdate(d)

Step(W) == \E d \in Devices : Ctor(d, W) \/ Poll(d, W)

\* One device per run, the full feed.
Init == (\E d \in Devices : DevInit({d}, {-1, 0})) /\ LightIdle

Next == Step(FullFeed)

Spec == Init /\ [][Next]_vars

\* Both devices in one run, a feed of fewer snapshots.  Every thread that
\* can take a step eventually takes one.
PairInit == DevInit(Devices, {-1}) /\ LightIdle

PairNext == Step(PairFeed)

PairSpec ==
    /\ PairInit
    /\ [][PairNext]_vars
    /\ \A d \in Devices : WF_vars(Poll(d, PairFeed))

\* The static readers of AztechBulb on light states drawn from LightSpace.
Levels == {0, 80}

OnStates ==
    {OnState(h, 50, b, t) : h \in {0, 120}, b \in Levels, t \in {0, 2700}}
        \cup {OnState(240, 100, 29, 4000)}

\* on_off, then the top-level fields or none of them, then the default-on
\* record or none.
LightSpace ==
    {[on_off |-> o] @@ top @@ dft :
        o \in {0, 1, 2},
        top \in OnStates \cup {[on_off |-> 0]},
        dft \in {[dft_on_state |-> x] : x \in OnStates}
                 \cup {[on_off |-> 0]}}

LightInit == DevInit({}, {-1}) /\ ls \in LightSpace /\ reading = NoneV

ReadLight ==
    /\ IsNone(reading)
    /\ reading' = [color_temp |-> color_temp(ls),
                   color_mode |-> color_mode(ls),
                   hsv |-> hsv(ls),
                   brightness |-> bulb_brightness(ls)]
    /\ UNCHANGED <<ls, devVars>>

LightSpec == LightInit /\ [][ReadLight]_vars

\* ------------------------------------------------------------- claims

Names(props) == [i \in 1..Len(props) |-> props[i].name]

HasProp(props, nm) == \E i \in 1..Len(props) : props[i].name = nm

ValueOf(props, nm) ==
    props[CHOOSE i \in 1..Len(props) : props[i].name = nm].value

Occurrences(seq, x) == Cardinality({i \in 1..Len(seq) : seq[i] = x})

\* The energy-meter token stands in the colon-separated list f.
HasToken(f) ==
    \E i \in 1..Len(f) :
        /\ i + 2 <= Len(f)
        /\ SubSeq(f, i, i + 2) = FEATURE_ENERGY_METER
        /\ i = 1 \/ f[i - 1] = ":"
        /\ i + 2 = Len(f) \/ f[i + 3] = ":"

\* The status snapshot has a feature list, with the token in it.
Metered(sysinfo) ==
    "feature" \in DOMAIN sysinfo /\ HasToken(sysinfo.feature)

EnergyKinds ==
    {[name |-> "instantaneousPower", base |-> "power", milli |-> "power_mw"],
     [name |-> "voltage", base |-> "voltage", milli |-> "voltage_mv"],
     [name |-> "current", base |-> "current", milli |-> "current_ma"]}

EnergyNames(props) ==
    {k.name : k \in {x \in EnergyKinds : HasProp(props, x.name)}}

ColorNames(props) ==
    {n \in {"color", "colorTemperature", "colorMode"} : HasProp(props, n)}

InConstructor == {"subclass", "emeter", "switch", "color"}

Running == {"sleep", "emeter", "state", "update", "blocked"}

\* C1: a poll cycle whose status fetch fails (an exception or no snapshot)
\* changes no property value, lets no exception out of the loop and leaves
\* the loop sleeping for its next cycle; and a cycle that comes to the end
\* of its updates, however many fetches failed before it, leaves every
\* property of the device at the value derived from that cycle's snapshots.
C1_StatusFailureSkipsCycle ==
    [][\A d \in Devices :
         /\ (pollPc[d] = "sleep" /\ failed'[d] = failed[d] + 1) =>
                /\ properties'[d] = properties[d]
                /\ pollPc'[d] = "sleep"
                /\ pollFault'[d] = "none"
         /\ (pollPc[d] = "update" /\ pollPc'[d] = "sleep") =>
                \A i \in 1..Len(properties'[d]) :
                    properties'[d][i].value =
                        PropertyUpdate(d, properties'[d][i].name,
                                       pollLocal[d])]_vars

\* After two failed fetches the loop of a constructed device has fetched
\* every snapshot of a new cycle and stands at its updates.
C1_Witness ==
    \E d \in Devices :
        /\ failed[d] >= 2
        /\ ctorPc[d] = "done"
        /\ pollPc[d] = "update"
        /\ Len(properties[d]) > 0

\* C2: the poll loop iterates over the property dict only when the
\* constructor is no longer populating it.
C2_PopulatedBeforeFirstTick ==
    \A d \in Devices : pollPc[d] = "update" => ctorPc[d] \notin InConstructor

\* C3: a snapshot that lacks a field the code reads (a KeyError) never ends
\* the poll thread.
C3_MalformedSnapshotDiscarded ==
    \A d \in Devices : pollFault[d] # "KeyError"

\* C4: once the constructor has returned, no step changes the names in the
\* property dict or the list of capability tags.
C4_CapabilitySetFixed ==
    [][\A d \in Devices :
         ctorPc[d] = "done" =>
             /\ Names(properties'[d]) = Names(properties[d])
             /\ typ'[d] = typ[d]]_vars

\* A plug built without energy properties has fetched, in a later cycle, a
\* status with the energy-meter token and an energy snapshot with readings.
C4_Witness ==
    /\ ctorPc["plug"] = "done"
    /\ ~HasProp(properties["plug"], "instantaneousPower")
    /\ pollPc["plug"] = "update"
    /\ pollLocal["plug"].sysinfo = PlugMeter
    /\ pollLocal["plug"].emeter = EmMilli

PollAt(d) == <<pollPc[d], pollIdx[d], pollLocal[d]>>

InCycle == {"emeter", "state", "update"}

\* C5: a step of one device's poll loop changes no property of another
\* device, and a loop that is in a cycle comes to the end of that cycle (or
\* to its own blocked call or its own fault) whatever the other devices'
\* loops do, blocked ones included.
C5_LoopsIsolated ==
    /\ [][\A d, e \in Devices :
            (d # e /\ PollAt(d)' # PollAt(d)) =>
                properties'[e] = properties[e]]_vars
    /\ \A e \in Devices :
           (pollPc[e] \in InCycle) ~> (pollPc[e] \notin InCycle)

\* The plug's loop is blocked in a vendor call while the bulb's loop has
\* fetched its snapshots.
C5_Witness == pollPc["plug"] = "blocked" /\ pollPc["bulb"] = "update"

\* C6: the plug constructor fetches the energy snapshot iff the feature
\* list holds the energy-meter token; after the fetch each of
\* instantaneousPower, voltage and current exists iff the snapshot has its
\* base-unit or milli-unit key, valued at the base-unit reading as it is or
\* at the milli-unit reading over 1000, a zero reading included; without
\* the token no energy snapshot is fetched and none of the three exists.
C6_PlugEnergyPresence ==
    [][\A d \in Devices :
         Kind(d) = "plug" =>
           /\ (ctorPc[d] = "subclass" /\ ctorPc'[d] \in {"emeter", "switch"})
                => /\ ctorPc'[d] = "emeter"
                        <=> HasToken(ctorLocal'[d].sysinfo.feature)
                   /\ IsNone(ctorLocal'[d].emeter)
                   /\ EnergyNames(properties'[d]) = {}
           /\ (ctorPc[d] = "emeter" /\ ctorPc'[d] = "switch")
                => \A k \in EnergyKinds :
                     LET e == ctorLocal'[d].emeter
                         props == properties'[d]
                     IN /\ HasProp(props, k.name)
                             <=> (k.base \in DOMAIN e \/ k.milli \in DOMAIN e)
                        /\ k.base \in DOMAIN e
                             => ValueOf(props, k.name) = Val(e[k.base])
                        /\ (k.base \notin DOMAIN e /\ k.milli \in DOMAIN e)
                             => ValueOf(props, k.name).v * 1000 = e[k.milli]
           /\ ctorPc[d] = "switch"
                => EnergyNames(properties'[d]) = EnergyNames(properties[d])
      ]_vars

\* The constructor has fetched a snapshot with a zero current and no
\* voltage: current exists, valued 0, and voltage does not.
C6_Witness ==
    /\ ctorPc["plug"] = "switch"
    /\ ctorLocal["plug"].emeter = EmBase
    /\ HasProp(properties["plug"], "current")
    /\ ValueOf(properties["plug"], "current") = Val(0)
    /\ ~HasProp(properties["plug"], "voltage")

\* The record C7 says the readings come from.
Source(light_state) ==
    IF light_state.on_off = 0
    THEN IF "dft_on_state" \in DOMAIN light_state
         THEN light_state.dft_on_state ELSE NoneV
    ELSE light_state

\* C7: on every light state whose source record (dft_on_state when on_off
\* is 0, the top level otherwise) carries the four fields, color_temp and
\* brightness return that record's fields, hsv its hue, saturation and
\* brightness * 255 / 100 truncated, and color_mode "color" exactly when its
\* color_temp is 0, "temperature" otherwise.
C7_OffStateResolution ==
    (~IsNone(reading)
       /\ {"hue", "saturation", "brightness", "color_temp"}
              \subseteq DOMAIN Source(ls))
    => LET src == Source(ls) IN
       /\ reading.color_temp = Val(src.color_temp)
       /\ reading.brightness = Val(src.brightness)
       /\ reading.hsv = Val(<<src.hue, src.saturation,
                              (src.brightness * 255) \div 100>>)
       /\ reading.color_mode = Val(IF src.color_temp = 0 THEN "color"
                                   ELSE "temperature")

\* An off light with only the default-on record: brightness 80 and mode
\* "color" were read from it.
C7_Witness ==
    /\ ls = LightOff
    /\ ~IsNone(reading)
    /\ reading.brightness = Val(80)
    /\ reading.color_mode = Val("color")

\* C8: after the color block of the bulb constructor the 'color' property
\* exists, with the ColorControl tag, iff the status says is_color;
\* colorTemperature exists iff it says is_variable_color_temp; colorMode
\* exists iff it says both; no later step adds or removes one of the three;
\* and the tag list never holds ColorControl twice.
C8_BulbColorCapabilities ==
    [][\A d \in Devices :
         Kind(d) = "bulb" =>
           /\ Occurrences(typ'[d], "ColorControl") <= 1
           /\ (ctorPc[d] = "color" /\ ctorPc'[d] = "emeter")
                => LET c == ctorLocal[d].sysinfo.is_color # 0
                       t == ctorLocal[d].sysinfo.is_variable_color_temp # 0
                       props == properties'[d]
                   IN /\ HasProp(props, "color") <=> c
                      /\ ("ColorControl" \in Range(typ'[d])
                            /\ HasProp(props, "color")) <=> c
                      /\ HasProp(props, "colorTemperature") <=> t
                      /\ HasProp(props, "colorMode") <=> (c /\ t)
           /\ ctorPc[d] \in {"emeter", "done"}
                => ColorNames(properties'[d]) = ColorNames(properties[d])
      ]_vars

\* A bulb whose status says variable color temperature and no color:
\* colorTemperature exists, color and colorMode do not.
C8_Witness ==
    /\ ctorPc["bulb"] = "emeter"
    /\ ctorLocal["bulb"].sysinfo = BulbSys(0, 1, 0)
    /\ ColorNames(properties["bulb"]) = {"colorTemperature"}

\* C9: no poll loop runs for a device whose constructor raised.
C9_NoLoopAfterFailedConstruction ==
    \A d \in Devices : ctorPc[d] = "failed" => pollPc[d] \notin Running

\* C10: the loop reaches its updates only with every local it hands to
\* them assigned in this cycle: the status, the light state for a bulb,
\* and the energy snapshot for a bulb always and for a plug iff this
\* cycle's feature list holds the token; no step of the loop before the
\* updates changes a property; and a failed fetch ends the cycle there.
C10_FetchesBeforeUpdates ==
    [][\A d \in Devices :
         /\ pollPc'[d] = "update" =>
              IF Kind(d) = "plug"
              THEN /\ "sysinfo" \in fresh'[d]
                   /\ "state" \notin fresh'[d]
                   /\ "emeter" \in fresh'[d]
                        <=> Metered(pollLocal'[d].sysinfo)
              ELSE fresh'[d] = {"sysinfo", "emeter", "state"}
         /\ (pollPc[d] \in {"sleep", "emeter", "state"}
               /\ ctorPc'[d] = ctorPc[d])
              => properties'[d] = properties[d]
         /\ (pollPc[d] \in {"sleep", "emeter", "state"}
               /\ failed'[d] = failed[d] + 1)
              => pollPc'[d] = "sleep"]_vars

\* After a failed fetch, a later cycle of the bulb has fetched all three
\* snapshots and stands at its updates.
C10_Witness ==
    /\ pollPc["bulb"] = "update"
    /\ fresh["bulb"] = {"sysinfo", "emeter", "state"}
    /\ failed["bulb"] >= 1

====
